---- MODULE Spec2Model ----
(***************************************************************************)
(* Penalized IRLS fitting of generalized additive models                   *)
(* (statsmodels/gam/gam.py): GLMGam.__init__, GLMGam._check_alpha,         *)
(* GLMGam.fit, GLMGam._fit_pirls, penalized_wls, make_augmented_matrix.    *)
(*                                                                         *)
(* Numbers are exact integers.  The design has one basis column per smooth *)
(* term and two observations per column, so that the weighted least        *)
(* squares problem separates by column and its solution is a quotient of   *)
(* two sums; the data sets below are chosen so that every quotient and     *)
(* every square root that occurs is an integer.                            *)
(*                                                                         *)
(* _fit_pirls is split so that every step holds at most one read or one    *)
(* write of an attribute of the model object (self.data_weights,           *)
(* self.weights, self.scale, self.mu): between any two of them a second    *)
(* call running on the same object can observe or disturb it.              *)
(***************************************************************************)
EXTENDS Integers, Sequences, FiniteSets, TLC

\* ------------------------------------------------------------ bounds
\* largest maxiter a caller passes explicitly
MaxIter == 3

\* ------------------------------------------------------------ constants
\* np.inf, the first entry of history['deviance'] (deviances are >= 0)
Inf == -1
\* maxiter=100 default of _fit_pirls
PirlsDefaultMaxiter == 100
\* maxiter=1000 default of fit
FitDefaultMaxiter == 1000
\* tol=1e-8 default of _fit_pirls, on the integer grid of the model
PirlsDefaultTol == 0
\* self._offset_exposure when the model has no offset and no exposure
OffsetExposure == 0

\* Python's None, where a vector or a list is expected
None == <<>>

\* the two call slots: Spec uses the first, SpecConc both
Fits == {1, 2}
SeqFits == {1}

\* ------------------------------------------------------------ inputs
SmootherCounts == {1, 2}
AlphaValues == {0, 2}
Families == {"Gaussian", "Kinked"}
Methods == {"PIRLS", "newton"}
TolValues == {0, 2}
StartValues == {12, 30, 32}

\* ------------------------------------------------------------ vectors
RECURSIVE SumSeq(_)
SumSeq(s) == IF s = <<>> THEN 0 ELSE Head(s) + SumSeq(Tail(s))

Const(n, v) == [i \in 1..n |-> v]
Ones(n) == Const(n, 1)
VAdd(a, b) == [i \in 1..Len(a) |-> a[i] + b[i]]
VSub(a, b) == [i \in 1..Len(a) |-> a[i] - b[i]]
VMul(a, b) == [i \in 1..Len(a) |-> a[i] * b[i]]
VShift(a, c) == [i \in 1..Len(a) |-> a[i] + c]
Dot(a, b) == SumSeq(VMul(a, b))
MatVec(m, v) == [i \in 1..Len(m) |-> Dot(m[i], v)]
Abs(x) == IF x < 0 THEN 0 - x ELSE x
\* np.sqrt on the perfect squares the model's data produce
ISqrt(n) == CHOOSE r \in 0..n : r * r = n
IsSquare(n) == \E r \in 0..n : r * r = n

\* ------------------------------------------------------------ data
\* smoother.basis_: column j is the indicator of observations 2j-1 and 2j
Basis(k) == [i \in 1..(2 * k) |-> [j \in 1..k |-> IF (i + 1) \div 2 = j THEN 1 ELSE 0]]
\* responses: one that no constant per block fits, one that a constant fits
EndogChoices(k) ==
    { [i \in 1..(2 * k) |-> IF i % 2 = 1 THEN 0 ELSE 24],
      [i \in 1..(2 * k) |-> 12] }
\* prior weights a caller passes: none, or 1 and 9 alternating
WeightChoices(k) == { None, [i \in 1..(2 * k) |-> IF i % 2 = 1 THEN 1 ELSE 9] }
\* start_params a caller passes
StartChoices(k) == { None } \cup { Const(k, v) : v \in StartValues }

\* ------------------------------------------------------------ np.allclose
\* np.isclose(a, b, atol, rtol): |a - b| <= atol + rtol * |b|; an infinite value
\* is close only to itself
IsClose(a, b, atol, rtol) ==
    IF a = Inf \/ b = Inf THEN a = b ELSE Abs(a - b) <= atol + rtol * Abs(b)
\* np.allclose(v, 0) with the default tolerances, on integers
AllCloseZero(v) == \A i \in 1..Len(v) : v[i] = 0

\* ------------------------------------------------------------ family
\* The exponential family of the model.  "Gaussian" is Gaussian with the
\* identity link.  "Kinked" has the piecewise linear link g(mu) = mu below
\* KinkAt and g(mu) = 2 mu - KinkAt from KinkAt on, and the variance function
\* 1 / g'(mu)^2, so that its IRLS weights 1 / (V(mu) g'(mu)^2) are 1.  Both
\* have the squared error as deviance.
KinkAt == 30
starting_mu(fam, y) ==
    LET mean == SumSeq(y) \div Len(y)
    IN [i \in 1..Len(y) |-> (y[i] + mean) \div 2]
\* family.fitted(lin_pred): the inverse link
fitted(fam, eta) ==
    [i \in 1..Len(eta) |->
        IF fam = "Gaussian" \/ eta[i] <= KinkAt
        THEN eta[i]
        ELSE KinkAt + (eta[i] - KinkAt) \div 2]
\* family.predict(mu): the link
predict(fam, m) ==
    [i \in 1..Len(m) |->
        IF fam = "Gaussian" \/ m[i] < KinkAt THEN m[i] ELSE 2 * m[i] - KinkAt]
deviance(fam, y, m) ==
    SumSeq([i \in 1..Len(y) |-> (y[i] - m[i]) * (y[i] - m[i])])
family_weights(fam, m) == Ones(Len(m))
link_deriv(fam, m) ==
    [i \in 1..Len(m) |-> IF fam = "Gaussian" \/ m[i] < KinkAt THEN 1 ELSE 2]

\* ------------------------------------------------------------ penalty
\* MultivariateGamPenalty.penalty_matrix(alpha): block diagonal, here one
\* 1 x 1 block alpha[j] per smooth term
penalty_matrix(a) ==
    [i \in 1..Len(a) |-> [j \in 1..Len(a) |-> IF i = j THEN a[i] ELSE 0]]
MatScale(c, m) == [i \in 1..Len(m) |-> [j \in 1..Len(m[i]) |-> c * m[i][j]]]
\* matrix_sqrt(s) of a diagonal positive semidefinite s: r with r'r = s, of
\* the shape of s (a zero block gives a zero row)
matrix_sqrt(s) ==
    [i \in 1..Len(s) |-> [j \in 1..Len(s) |-> IF i = j THEN ISqrt(s[i][i]) ELSE 0]]

\* ------------------------------------------------------------ penalized WLS
\* make_augmented_matrix(x, y, s, w)
make_augmented_matrix(x, y, s, w) ==
    LET n_samples == Len(x)
        rs == matrix_sqrt(s)
        x1 == x \o rs
        n_samples_x1 == Len(x1)
        y1 == [i \in 1..n_samples_x1 |-> IF i <= n_samples THEN y[i] ELSE 0]
        id1 == Ones(Len(rs))
        w1c == w \o id1
        w1 == [i \in 1..Len(w1c) |-> ISqrt(w1c[i])]
    IN [x |-> x1, y |-> y1, w |-> w1]

\* the augmented problem penalized_wls hands to lm.WLS
penalized_wls_problem(x, y, s, weights) ==
    make_augmented_matrix(x, y, MatScale(2, s), weights)

\* lm.WLS(aug_y, aug_x, aug_weights).fit().params for a design whose columns
\* have disjoint support: the minimiser of sum_i w_i (y_i - x_i . b)^2
wls_fit(y, x, w) ==
    [j \in 1..Len(x[1]) |->
        SumSeq([i \in 1..Len(x) |-> w[i] * x[i][j] * y[i]])
            \div SumSeq([i \in 1..Len(x) |-> w[i] * x[i][j] * x[i][j]])]

\* penalized_wls(x, y, s, weights).params
penalized_wls(x, y, s, weights) ==
    LET aug == penalized_wls_problem(x, y, s, weights)
    IN wls_fit(aug.y, aug.x, aug.w)

\* the division in wls_fit is exact
WlsExact(x, y, s, weights) ==
    LET aug == penalized_wls_problem(x, y, s, weights)
    IN \A j \in 1..Len(aug.x[1]) :
          SumSeq([i \in 1..Len(aug.x) |-> aug.w[i] * aug.x[i][j] * aug.y[i]])
            % SumSeq([i \in 1..Len(aug.x) |-> aug.w[i] * aug.x[i][j] * aug.x[i][j]]) = 0

\* ------------------------------------------------------------ state
VARIABLES
    \* the model object (self)
    constructed,    \* "new" or "ok" (constructed)
    smoothers,      \* len(smoother.smoothers_)
    alpha_in,       \* the alpha argument of __init__
    alpha,          \* self.alpha
    family,         \* self.family
    endog,          \* self.endog
    endog_ndim,     \* self.endog.squeeze().ndim
    data_weights,   \* self.data_weights
    weights,        \* self.weights
    scale,          \* self.scale, a quotient <<numerator, denominator>>
    mu_attr,        \* self.mu
    \* one call of fit / _fit_pirls per slot: its position and its locals
    pc,             \* "idle", "enter_scale", "enter_init", "loop", "weights",
                    \* "solve", "after_loop", "scale", "results", "done",
                    \* "raised", "delegated"
    call,           \* what the caller asked for
    args,           \* the parameters _fit_pirls runs with
    it_next,        \* the next value range(maxiter) yields
    data_weights_read,  \* the value of self.data_weights loaded at line 321
    iteration,      \* the loop variable
    lin_pred,
    mu,
    history,
    converged,
    wls_results,
    result,         \* <<>> or <<the returned results object>>
    \* a call of penalized_wls on its own
    aug_in,         \* <<>> or <<[x, y, s, w]>>
    aug_out         \* <<>> or <<the problem handed to lm.WLS>>

modelVars == <<constructed, smoothers, alpha_in, alpha, family, endog, endog_ndim>>
selfVars == <<data_weights, weights, scale, mu_attr>>
callVars == <<pc, call, args, it_next, data_weights_read, iteration, lin_pred,
              mu, history, converged, wls_results, result>>
augVars == <<aug_in, aug_out>>
vars == <<modelVars, selfVars, callVars, augVars>>

NoCall == [via |-> "none", method |-> "", start_params |-> None, maxiter |-> 0,
           tol |-> 0, weights |-> None]
NoArgs == [start_params |-> None, maxiter |-> 0, tol |-> 0, weights |-> None]
NoHistory == [params |-> <<>>, deviance |-> <<>>]
NoWls == [params |-> None, normalized_cov_params |-> "unbound"]

\* ------------------------------------------------------------ construction
\* the alpha arguments of __init__ for a smoother of k terms: a scalar, or a
\* list with one entry per term.  What the constructor of the penalty object
\* does with a list of another length is decided outside gam.py and is not
\* modelled.
AlphaInputs(k) ==
    { [kind |-> "scalar", val |-> <<a>>] : a \in AlphaValues }
    \cup { [kind |-> "sequence", val |-> v] : v \in [1..k -> AlphaValues] }

\* GLMGam._check_alpha: a scalar becomes [alpha] * len(smoothers_), a list is
\* kept and any other iterable becomes the list of its items
check_alpha(a, k) ==
    IF a.kind = "scalar" THEN Const(k, a.val[1]) ELSE a.val

\* GLMGam.__init__: self.alpha = self._check_alpha(alpha), then the penalty
\* object is built from it
GLMGam_init(k, a) == [alpha |-> check_alpha(a, k)]

Construct ==
    /\ constructed = "new"
    /\ \E k \in SmootherCounts :
         \E a \in AlphaInputs(k), fam \in Families, nd \in {1, 2},
            y \in EndogChoices(k) :
              /\ fam = "Gaussian" => nd = 1
              /\ constructed' = "ok"
              /\ smoothers' = k
              /\ alpha_in' = a
              /\ alpha' = GLMGam_init(k, a).alpha
              /\ family' = fam
              /\ endog_ndim' = nd
              /\ endog' = y
    /\ UNCHANGED <<selfVars, callVars, augVars>>

\* ------------------------------------------------------------ helpers of the loop
wlsexog == Basis(smoothers)
spl_s == penalty_matrix(alpha)

\* GLM.estimate_scale(mu) with scaletype 'dev': deviance / df_resid
estimate_scale(m) == <<deviance(family, endog, m), Len(endog) - smoothers>>

\* GLM._update_history: append the coefficients and the deviance
update_history(tmp_result, m, h) ==
    [params |-> Append(h.params, tmp_result.params),
     deviance |-> Append(h.deviance, deviance(family, endog, m))]

\* _check_convergence(criterion, iteration, atol, rtol): the entries at
\* positions iteration and iteration + 1 (counted from 0) are close
check_convergence(criterion, it, atol, rtol) ==
    IsClose(criterion[it + 1], criterion[it + 2], atol, rtol)

\* a mutant of range(maxiter): one value too many
has_next_inclusive(nxt, maxiter) == nxt <= maxiter

\* for iteration in range(maxiter): is there a next value
has_next(nxt, maxiter) == nxt < maxiter

\* a mutant of the end of the loop body: convergence is tested first
iteration_outcome_conv_first(sep, conv) ==
    IF conv THEN "break" ELSE IF sep THEN "raise" ELSE "continue"

\* the end of the loop body: raise on perfect separation, else break when
\* converged, else go on
iteration_outcome(sep, conv) ==
    IF sep THEN "raise" ELSE IF conv THEN "break" ELSE "continue"

\* history = dict(params=[None, start_params], deviance=[np.inf, dev])
initial_history(start_params, dev) ==
    [params |-> <<None, start_params>>, deviance |-> <<Inf, dev>>]

\* a mutant of the results: converged is reported as True
build_result_converged(wls, sc, h, it, conv) ==
    [params |-> wls.params,
     normalized_cov_params |-> wls.normalized_cov_params,
     scale |-> sc,
     method |-> "PIRLS",
     fit_history |-> [params |-> h.params, deviance |-> h.deviance,
                      iteration |-> it + 1],
     converged |-> TRUE]

\* GLMGAMResults(self, wls_results.params, wls_results.normalized_cov_params,
\* self.scale), method, fit_history with history['iteration'], converged
build_result(wls, sc, h, it, conv) ==
    [params |-> wls.params,
     normalized_cov_params |-> wls.normalized_cov_params,
     scale |-> sc,
     method |-> "PIRLS",
     fit_history |-> [params |-> h.params, deviance |-> h.deviance,
                      iteration |-> it + 1],
     converged |-> conv]

\* the keyword arguments fit hands to _fit_pirls: alpha, cov_type, cov_kwds
\* and **kwargs (here weights); start_params, maxiter and tol are not among them
fit_pirls_args(c) ==
    [start_params |-> None, maxiter |-> PirlsDefaultMaxiter,
     tol |-> PirlsDefaultTol, weights |-> c.weights]

\* ------------------------------------------------------------ _fit_pirls
\* entry of _fit_pirls for call slot f with parameters a, up to the store of
\* self.data_weights
Enter(f, c, a) ==
    LET n_samples == Len(wlsexog)
    IN /\ call' = [call EXCEPT ![f] = c]
       /\ args' = [args EXCEPT ![f] = a]
       /\ data_weights' = IF a.weights = None THEN Ones(n_samples) ELSE a.weights
       /\ pc' = [pc EXCEPT ![f] = "enter_scale"]
       /\ UNCHANGED <<weights, scale, mu_attr, it_next, data_weights_read,
                      iteration, lin_pred, mu, history, converged, wls_results,
                      result>>

Lower(m) == IF m = "PIRLS" THEN "pirls" ELSE m

\* GLMGam.fit: the penalized IRLS method goes to _fit_pirls, any other method
\* to the generic optimizer of GLM
fit(f, c) ==
    IF Lower(c.method) = "pirls"
    THEN Enter(f, c, fit_pirls_args(c))
    ELSE /\ call' = [call EXCEPT ![f] = c]
         /\ pc' = [pc EXCEPT ![f] = "delegated"]
         /\ UNCHANGED <<selfVars, args, it_next, data_weights_read, iteration,
                        lin_pred, mu, history, converged, wls_results, result>>

\* fit(start_params, maxiter, method, tol, weights=...)
CallFit(f) ==
    /\ constructed = "ok"
    /\ pc[f] = "idle"
    /\ \E m \in Methods, sp \in {None, Const(smoothers, 12)}, mi \in {0, MaxIter},
          tl \in TolValues, w \in WeightChoices(smoothers) :
         fit(f, [via |-> "fit", method |-> m, start_params |-> sp,
                 maxiter |-> mi, tol |-> tl, weights |-> w])
    /\ UNCHANGED <<modelVars, augVars>>

\* fit(weights=...) with the defaults of fit for everything else
CallFitDefaults(f) ==
    /\ constructed = "ok"
    /\ pc[f] = "idle"
    /\ \E w \in WeightChoices(smoothers) :
         fit(f, [via |-> "fit", method |-> "PIRLS", start_params |-> None,
                 maxiter |-> FitDefaultMaxiter, tol |-> PirlsDefaultTol,
                 weights |-> w])
    /\ UNCHANGED <<modelVars, augVars>>

\* GLMGam._fit_pirls(alpha, start_params, maxiter, tol, weights) called directly
CallFitPirls(f) ==
    /\ constructed = "ok"
    /\ pc[f] = "idle"
    /\ \E sp \in StartChoices(smoothers), mi \in 0..MaxIter,
          tl \in TolValues, w \in WeightChoices(smoothers) :
         LET a == [start_params |-> sp, maxiter |-> mi, tol |-> tl, weights |-> w]
             c == [via |-> "_fit_pirls", method |-> "pirls", start_params |-> sp,
                   maxiter |-> mi, tol |-> tl, weights |-> w]
         IN Enter(f, c, a)
    /\ UNCHANGED <<modelVars, augVars>>

\* self._offset_exposure, self.scaletype, then self.scale = 1
EnterScale(f) ==
    /\ pc[f] = "enter_scale"
    /\ scale' = <<1, 1>>
    /\ pc' = [pc EXCEPT ![f] = "enter_init"]
    /\ UNCHANGED <<modelVars, augVars, data_weights, weights, mu_attr, call, args,
                   it_next, data_weights_read, iteration, lin_pred, mu, history,
                   converged, wls_results, result>>

\* starting values, initial deviance and history; for maxiter = 0 also mu,
\* self.scale, wls_results and iteration
EnterInit(f) ==
    /\ pc[f] = "enter_init"
    /\ LET a == args[f]
           lp0 == IF a.start_params = None
                  THEN predict(family, starting_mu(family, endog))
                  ELSE VShift(MatVec(wlsexog, a.start_params), OffsetExposure)
           mu0 == IF a.start_params = None
                  THEN starting_mu(family, endog)
                  ELSE fitted(family, lp0)
           dev == deviance(family, endog, mu0)
       IN /\ lin_pred' = [lin_pred EXCEPT ![f] = lp0]
          /\ history' = [history EXCEPT ![f] = initial_history(a.start_params, dev)]
          /\ converged' = [converged EXCEPT ![f] = FALSE]
          /\ IF a.maxiter = 0
             THEN /\ mu' = [mu EXCEPT ![f] = fitted(family, lp0)]
                  /\ scale' = estimate_scale(fitted(family, lp0))
                  /\ wls_results' = [wls_results EXCEPT ![f] =
                         [params |-> a.start_params,
                          normalized_cov_params |-> "None"]]
             ELSE /\ mu' = [mu EXCEPT ![f] = mu0]
                  /\ scale' = scale
                  /\ wls_results' = [wls_results EXCEPT ![f] = NoWls]
    /\ iteration' = [iteration EXCEPT ![f] = 0]
    /\ it_next' = [it_next EXCEPT ![f] = 0]
    /\ pc' = [pc EXCEPT ![f] = "loop"]
    /\ UNCHANGED <<modelVars, augVars, data_weights, weights, mu_attr, call, args,
                   data_weights_read, result>>

\* top of the loop body: range(maxiter) yields the next iteration, and the
\* right hand side of line 321 loads self.data_weights
IterReadDataWeights(f) ==
    /\ pc[f] = "loop"
    /\ has_next(it_next[f], args[f].maxiter)
    /\ iteration' = [iteration EXCEPT ![f] = it_next[f]]
    /\ it_next' = [it_next EXCEPT ![f] = it_next[f] + 1]
    /\ data_weights_read' = [data_weights_read EXCEPT ![f] = data_weights]
    /\ pc' = [pc EXCEPT ![f] = "weights"]
    /\ UNCHANGED <<modelVars, augVars, selfVars, call, args, lin_pred, mu,
                   history, converged, wls_results, result>>

\* self.weights = (the loaded data weights) * self.family.weights(mu)
IterWeights(f) ==
    /\ pc[f] = "weights"
    /\ weights' = VMul(data_weights_read[f], family_weights(family, mu[f]))
    /\ pc' = [pc EXCEPT ![f] = "solve"]
    /\ UNCHANGED <<modelVars, augVars, data_weights, scale, mu_attr, call, args,
                   it_next, data_weights_read, iteration, lin_pred, mu, history,
                   converged, wls_results, result>>

\* wlsendog = lin_pred + link.deriv(mu) * (endog - mu) - self._offset_exposure
working_response(lp, m) ==
    VShift(VAdd(lp, VMul(link_deriv(family, m), VSub(endog, m))),
           0 - OffsetExposure)

\* rest of the loop body: working response, penalized WLS with self.weights,
\* new linear predictor and mu, history, perfect separation check,
\* convergence check
IterSolve(f) ==
    /\ pc[f] = "solve"
    /\ \E p \in { penalized_wls(wlsexog, working_response(lin_pred[f], mu[f]),
                                 spl_s, weights) } :
         LET wls == [params |-> p, normalized_cov_params |-> "computed"]
             lp == VShift(MatVec(wlsexog, p), OffsetExposure)
             m == fitted(family, lp)
             h == update_history(wls, m, history[f])
             sep == endog_ndim = 1 /\ AllCloseZero(VSub(m, endog))
             conv == check_convergence(h.deviance, iteration[f], args[f].tol, 0)
             out == iteration_outcome(sep, conv)
         IN /\ wls_results' = [wls_results EXCEPT ![f] = wls]
            /\ lin_pred' = [lin_pred EXCEPT ![f] = lp]
            /\ mu' = [mu EXCEPT ![f] = m]
            /\ history' = [history EXCEPT ![f] = h]
            /\ converged' = [converged EXCEPT ![f] =
                               IF out = "raise" THEN converged[f] ELSE conv]
            /\ pc' = [pc EXCEPT ![f] =
                         CASE out = "raise" -> "raised"
                           [] out = "break" -> "after_loop"
                           [] OTHER -> "loop"]
    /\ UNCHANGED <<modelVars, augVars, selfVars, call, args, it_next,
                   data_weights_read, iteration, result>>

\* after the loop: self.mu = mu
FinishMu(f) ==
    /\ \/ pc[f] = "after_loop"
       \/ pc[f] = "loop" /\ ~has_next(it_next[f], args[f].maxiter)
    /\ mu_attr' = mu[f]
    /\ pc' = [pc EXCEPT ![f] = "scale"]
    /\ UNCHANGED <<modelVars, augVars, data_weights, weights, scale, call, args,
                   it_next, data_weights_read, iteration, lin_pred, mu, history,
                   converged, wls_results, result>>

\* self.scale = self.estimate_scale(mu)
FinishScale(f) ==
    /\ pc[f] = "scale"
    /\ scale' = estimate_scale(mu[f])
    /\ pc' = [pc EXCEPT ![f] = "results"]
    /\ UNCHANGED <<modelVars, augVars, data_weights, weights, mu_attr, call, args,
                   it_next, data_weights_read, iteration, lin_pred, mu, history,
                   converged, wls_results, result>>

\* the results object is built from wls_results and self.scale and returned
FinishResult(f) ==
    /\ pc[f] = "results"
    /\ result' = [result EXCEPT ![f] =
                    <<build_result(wls_results[f], scale, history[f],
                                   iteration[f], converged[f])>>]
    /\ pc' = [pc EXCEPT ![f] = "done"]
    /\ UNCHANGED <<modelVars, augVars, selfVars, call, args, it_next,
                   data_weights_read, iteration, lin_pred, mu, history, converged,
                   wls_results>>

\* ------------------------------------------------------------ penalized_wls alone
AugRowCounts == {1, 2}
AugColCounts == {1, 2}
AugInputs ==
    UNION { { [x |-> x, y |-> y, s |-> [i \in 1..p |-> [j \in 1..p |->
                                          IF i = j THEN d[i] ELSE 0]], w |-> w] :
                x \in [1..n -> [1..p -> {0, 1}]],
                y \in [1..n -> {0, 3}],
                d \in [1..p -> {0, 2, 8}],
                w \in [1..n -> {1, 4, 9}] } :
            n \in AugRowCounts, p \in AugColCounts }

ApplyPenalizedWls ==
    /\ aug_in # <<>>
    /\ aug_out = <<>>
    /\ aug_out' = <<penalized_wls_problem(aug_in[1].x, aug_in[1].y,
                                          aug_in[1].s, aug_in[1].w)>>
    /\ UNCHANGED <<modelVars, selfVars, callVars, aug_in>>

\* ------------------------------------------------------------ specifications
IdleModel ==
    /\ constructed = "new"
    /\ smoothers = 0
    /\ alpha_in = [kind |-> "scalar", val |-> <<0>>]
    /\ alpha = <<>>
    /\ family = ""
    /\ endog = <<>>
    /\ endog_ndim = 0

IdleCalls ==
    /\ data_weights = <<>>
    /\ weights = <<>>
    /\ scale = <<1, 1>>
    /\ mu_attr = <<>>
    /\ pc = [f \in Fits |-> "idle"]
    /\ call = [f \in Fits |-> NoCall]
    /\ args = [f \in Fits |-> NoArgs]
    /\ it_next = [f \in Fits |-> 0]
    /\ data_weights_read = [f \in Fits |-> <<>>]
    /\ iteration = [f \in Fits |-> 0]
    /\ lin_pred = [f \in Fits |-> <<>>]
    /\ mu = [f \in Fits |-> <<>>]
    /\ history = [f \in Fits |-> NoHistory]
    /\ converged = [f \in Fits |-> FALSE]
    /\ wls_results = [f \in Fits |-> NoWls]
    /\ result = [f \in Fits |-> <<>>]

\* one model, one call at a time
Init ==
    /\ IdleModel
    /\ IdleCalls
    /\ aug_in = <<>>
    /\ aug_out = <<>>

Step(f) ==
    \/ CallFit(f)
    \/ CallFitPirls(f)
    \/ EnterScale(f)
    \/ EnterInit(f)
    \/ IterReadDataWeights(f)
    \/ IterWeights(f)
    \/ IterSolve(f)
    \/ FinishMu(f)
    \/ FinishScale(f)
    \/ FinishResult(f)

Next ==
    \/ Construct
    \/ \E f \in SeqFits : Step(f)

Spec == Init /\ [][Next]_vars

\* a constructed Gaussian model on which two threads call fit
InitConc ==
    /\ constructed = "ok"
    /\ smoothers \in SmootherCounts
    /\ alpha_in \in { a \in AlphaInputs(smoothers) : a.kind = "sequence" }
    /\ alpha = alpha_in.val
    /\ family = "Gaussian"
    /\ endog \in EndogChoices(smoothers)
    /\ endog_ndim = 1
    /\ IdleCalls
    /\ aug_in = <<>>
    /\ aug_out = <<>>

StepConc(f) ==
    \/ CallFitDefaults(f)
    \/ EnterScale(f)
    \/ EnterInit(f)
    \/ IterReadDataWeights(f)
    \/ IterWeights(f)
    \/ IterSolve(f)
    \/ FinishMu(f)
    \/ FinishScale(f)
    \/ FinishResult(f)

NextConc == \E f \in Fits : StepConc(f)

SpecConc == InitConc /\ [][NextConc]_vars

\* penalized_wls applied to one input
InitAug ==
    /\ IdleModel
    /\ IdleCalls
    /\ aug_in \in { <<i>> : i \in AugInputs }
    /\ aug_out = <<>>

NextAug == ApplyPenalizedWls

SpecAug == InitAug /\ [][NextAug]_vars

\* ------------------------------------------------------------ _fit_pirls run alone
\* _fit_pirls as a function of its parameters: the loop from iteration it
\* on, when no other call touches the model object.
\* st holds the locals lin_pred, mu, history, iteration, converged,
\* wls_results and the way the loop was left.
\* the coefficients of the penalized WLS solve of one iteration
pirls_solve(st, a) ==
    LET dw == IF a.weights = None THEN Ones(Len(wlsexog)) ELSE a.weights
        w == VMul(dw, family_weights(family, st.mu))
        z == working_response(st.lin_pred, st.mu)
    IN penalized_wls(wlsexog, z, spl_s, w)

\* the locals after the iteration it whose solve returned p
pirls_iteration(st, it, a, p) ==
    LET wls == [params |-> p, normalized_cov_params |-> "computed"]
        lp == VShift(MatVec(wlsexog, p), OffsetExposure)
        m == fitted(family, lp)
        h == update_history(wls, m, st.history)
        sep == endog_ndim = 1 /\ AllCloseZero(VSub(m, endog))
        conv == check_convergence(h.deviance, it, a.tol, 0)
        out == iteration_outcome(sep, conv)
    IN [lin_pred |-> lp, mu |-> m, history |-> h, iteration |-> it,
        converged |-> IF out = "raise" THEN st.converged ELSE conv,
        wls_results |-> wls, left |-> out]

RECURSIVE pirls_loop(_, _, _)
pirls_loop(st, it, a) ==
    IF ~has_next(it, a.maxiter)
    THEN st
    ELSE CHOOSE r \in
             { IF nxt.left = "continue" THEN pirls_loop(nxt, it + 1, a) ELSE nxt :
                 nxt \in UNION { { pirls_iteration(s, it, a, p) :
                                     p \in { pirls_solve(s, a) } } : s \in { st } } } :
             TRUE

\* what _fit_pirls(a) returns when it runs alone: <<>> when it raises
pirls_alone(a) ==
    LET lp0 == IF a.start_params = None
               THEN predict(family, starting_mu(family, endog))
               ELSE VShift(MatVec(wlsexog, a.start_params), OffsetExposure)
        mu0 == IF a.start_params = None
               THEN starting_mu(family, endog)
               ELSE fitted(family, lp0)
        st0 == [lin_pred |-> lp0, mu |-> mu0,
                history |-> initial_history(a.start_params,
                                            deviance(family, endog, mu0)),
                iteration |-> 0, converged |-> FALSE,
                wls_results |-> IF a.maxiter = 0
                                THEN [params |-> a.start_params,
                                      normalized_cov_params |-> "None"]
                                ELSE NoWls,
                left |-> "continue"]
        st == pirls_loop(st0, 0, a)
    IN IF st.left = "raise"
       THEN <<>>
       ELSE <<build_result(st.wls_results, estimate_scale(st.mu), st.history,
                           st.iteration, st.converged)>>

\* ------------------------------------------------------------ checks of the model
Started(f) ==
    pc[f] \in {"loop", "weights", "solve", "after_loop", "scale", "results",
               "done", "raised"}
Last(s) == s[Len(s)]
IsPrefix(s, t) == Len(s) <= Len(t) /\ SubSeq(t, 1, Len(s)) = s
AllZero(v) == \A i \in 1..Len(v) : v[i] = 0

\* every square root and every quotient the model takes is exact
ExactArithmetic ==
    \A f \in Fits :
        /\ Started(f) =>
              \A i \in 1..Len(lin_pred[f]) :
                  lin_pred[f][i] > KinkAt => (lin_pred[f][i] - KinkAt) % 2 = 0
        /\ pc[f] = "solve" =>
              /\ \A i \in 1..Len(weights) : IsSquare(weights[i])
              /\ WlsExact(wlsexog, working_response(lin_pred[f], mu[f]), spl_s,
                          weights)

\* the history only grows, one (params, deviance) pair per executed iteration
HistoryAppendOnly ==
    [][\A f \in Fits :
          Started(f) =>
              /\ IsPrefix(history[f].params, history'[f].params)
              /\ IsPrefix(history[f].deviance, history'[f].deviance)
              /\ Len(history'[f].params) = Len(history'[f].deviance)
              /\ Len(history'[f].deviance) =
                    2 + it_next'[f] - (IF pc'[f] \in {"weights", "solve"} THEN 1 ELSE 0)]_vars

\* every step of a running call brings it closer to its end: the number of
\* loop iterations left goes down, or the call moves on within an iteration
Rank(f) ==
    CASE pc[f] = "weights" -> 3 * (args[f].maxiter - it_next[f]) + 6
      [] pc[f] = "solve" -> 3 * (args[f].maxiter - it_next[f]) + 5
      [] pc[f] = "loop" -> 3 * (args[f].maxiter - it_next[f]) + 4
      [] pc[f] = "after_loop" -> 3
      [] pc[f] = "scale" -> 2
      [] pc[f] = "results" -> 1
      [] OTHER -> 0
CallsMakeProgress ==
    [][\A f \in Fits :
          (Started(f) /\ pc'[f] # pc[f]) =>
              /\ Rank(f) > 0
              /\ Rank(f)' < Rank(f)
              /\ Rank(f)' >= 0]_vars

\* a call that runs alone returns what pirls_alone computes
SequentialMatchesAlone ==
    pc[2] = "idle" =>
        /\ pc[1] = "done" => result[1] = pirls_alone(args[1])
        /\ pc[1] = "raised" => pirls_alone(args[1]) = <<>>
        /\ pc[1] \in {"done", "raised"} \/ result[1] = <<>>

\* Gaussian family without penalty, enough iterations allowed: the first solve
\* is the fixed point, and the loop reports convergence at its second or
\* third iteration
GaussianConvergesByThirdIteration ==
    \A f \in Fits :
        (family = "Gaussian" /\ AllZero(alpha) /\ pc[f] = "done"
            /\ args[f].maxiter = PirlsDefaultMaxiter) =>
            LET r == result[f][1]
            IN /\ r.converged
               /\ r.fit_history.iteration \in {2, 3}
               /\ \A i \in 3..Len(r.fit_history.params) :
                     r.fit_history.params[i] = r.fit_history.params[3]

\* a constructed model holds alpha as a list with one entry per smooth term,
\* a scalar argument repeated for every term
AlphaIsListPerTerm ==
    constructed = "ok" =>
        /\ Len(alpha) = smoothers
        /\ alpha_in.kind = "scalar" => alpha = Const(smoothers, alpha_in.val[1])
        /\ alpha_in.kind = "sequence" => alpha = alpha_in.val

\* ------------------------------------------------------------ claims
\* C1: when _fit_pirls runs with maxiter = 0 the loop body is never entered
\* (no penalized WLS solve happens), the returned coefficients are the
\* start_params supplied, and the deviance history holds the sentinel and the
\* initial deviance and nothing after them.
C1_MaxiterZeroSkipsLoop ==
    \A f \in Fits :
        (Started(f) /\ args[f].maxiter = 0) =>
            /\ pc[f] \notin {"weights", "solve", "raised"}
            /\ it_next[f] = 0
            /\ wls_results[f] = [params |-> args[f].start_params,
                                 normalized_cov_params |-> "None"]
            /\ Len(history[f].deviance) = 2
            /\ history[f].deviance[1] = Inf
            /\ history[f].deviance[2] = deviance(family, endog, mu[f])
            /\ pc[f] = "done" =>
                 /\ result[f][1].params = args[f].start_params
                 /\ result[f][1].normalized_cov_params = "None"
                 /\ result[f][1].fit_history.deviance = history[f].deviance
                 /\ result[f][1].fit_history.params = <<None, args[f].start_params>>

C1_Witness ==
    \E f \in Fits :
        /\ pc[f] = "done"
        /\ args[f].maxiter = 0
        /\ args[f].start_params # None
        /\ result[f][1].params = args[f].start_params

\* C2: in every iteration the perfect separation check runs after the new
\* deviance is appended and before the convergence check: when the response
\* is one-dimensional and mu equals endog at the end of an iteration, the
\* call ends with PerfectSeparationError and returns no result, whatever the
\* convergence check would have said.
C2_SeparationRaisesFirst ==
    \A f \in Fits :
        /\ (pc[f] \in {"loop", "weights", "after_loop", "scale", "results", "done"}
               /\ Len(history[f].deviance) > 2 /\ endog_ndim = 1)
             => ~AllCloseZero(VSub(mu[f], endog))
        /\ pc[f] = "raised" =>
             /\ result[f] = <<>>
             /\ endog_ndim = 1
             /\ AllCloseZero(VSub(mu[f], endog))
             /\ Len(history[f].deviance) = it_next[f] + 2
             /\ Last(history[f].deviance) = deviance(family, endog, mu[f])
             /\ Last(history[f].params) = wls_results[f].params

C2_Witness ==
    \E f \in Fits :
        /\ pc[f] = "raised"
        /\ result[f] = <<>>
        /\ check_convergence(history[f].deviance, iteration[f], args[f].tol, 0)

\* C3: a call with maxiter >= 1 runs at most maxiter iterations and ends in
\* one of three ways: converged (a result
\* with converged = TRUE, the loop left by the break), maximum reached (a
\* result with converged = FALSE after exactly maxiter iterations, holding the
\* coefficients of the last WLS solve), or perfect separation (no result).
C3_ThreeOutcomes ==
    \A f \in Fits :
        (Started(f) /\ args[f].maxiter >= 1) =>
            /\ it_next[f] <= args[f].maxiter
            /\ pc[f] = "after_loop" =>
                 /\ converged[f]
                 /\ check_convergence(history[f].deviance, iteration[f],
                                      args[f].tol, 0)
            /\ (pc[f] = "loop" /\ it_next[f] > 0) =>
                 /\ ~converged[f]
                 /\ ~check_convergence(history[f].deviance, iteration[f],
                                       args[f].tol, 0)
            /\ pc[f] = "raised" => result[f] = <<>>
            /\ pc[f] # "done" => result[f] = <<>>
            /\ pc[f] = "done" =>
                 /\ Len(result[f]) = 1
                 /\ result[f][1].params = Last(history[f].params)
                 /\ result[f][1].normalized_cov_params = "computed"
                 /\ result[f][1].converged =
                        check_convergence(history[f].deviance, iteration[f],
                                          args[f].tol, 0)
                 /\ ~result[f][1].converged => it_next[f] = args[f].maxiter
                 /\ it_next[f] >= 1

C3_Witness ==
    \E f \in Fits :
        /\ pc[f] = "done"
        /\ args[f].maxiter = MaxIter
        /\ it_next[f] = args[f].maxiter
        /\ ~result[f][1].converged
        /\ result[f][1].params = Last(history[f].params)

\* C4: the convergence check at the end of an iteration compares the two most
\* recent deviances of the history; the loop stops as converged exactly when
\* their difference is within the tolerance.
C4_ComparesTwoMostRecent ==
    \A f \in Fits :
        (pc[f] \in {"loop", "after_loop"} /\ it_next[f] > 0) =>
            LET d == history[f].deviance
            IN (pc[f] = "after_loop")
                 <=> IsClose(d[Len(d) - 1], d[Len(d)], args[f].tol, 0)

\* C5: for alpha = 0 and the Gaussian family with identity link the loop
\* converges in exactly one iteration: converged = TRUE and an iteration
\* count of 1.
C5_GaussianOneIteration ==
    \A f \in Fits :
        (family = "Gaussian" /\ AllZero(alpha) /\ pc[f] = "done"
            /\ args[f].maxiter = PirlsDefaultMaxiter) =>
            /\ result[f][1].converged
            /\ result[f][1].fit_history.iteration = 1

\* C6: fit with the penalized IRLS method runs the loop with the caller's
\* maxiter, tol and start_params, so the loop executes at most maxiter
\* iterations (none for maxiter = 0).
C6_FitPassesCallerArguments ==
    \A f \in Fits :
        (pc[f] = "done" /\ call[f].via = "fit") =>
            /\ it_next[f] <= call[f].maxiter
            /\ args[f].maxiter = call[f].maxiter
            /\ args[f].tol = call[f].tol
            /\ args[f].start_params = call[f].start_params

\* C8: the per-iteration state of a fit belongs to the call alone: when two
\* calls on the same model object interleave, each returns (or raises) what
\* it returns when it runs alone.
C8_FitsAreIndependent ==
    \A f \in Fits :
        /\ pc[f] = "done" => result[f] = pirls_alone(args[f])
        /\ pc[f] = "raised" => pirls_alone(args[f]) = <<>>

\* C9: the problem penalized_wls hands to the WLS solve is x stacked over r,
\* y followed by zeros and w followed by ones, all of n + r rows, where r is
\* a square root of the penalty matrix s supplied (r'r = s).
Gram(r, p) ==
    [a \in 1..p |-> [b \in 1..p |->
        SumSeq([i \in 1..Len(r) |-> r[i][a] * r[i][b]])]]

C9_AugmentedProblem ==
    aug_out # <<>> =>
        LET i == aug_in[1]
            o == aug_out[1]
            n == Len(i.x)
            r == SubSeq(o.x, n + 1, Len(o.x))
        IN /\ Len(o.y) = Len(o.x)
           /\ Len(o.w) = Len(o.x)
           /\ SubSeq(o.x, 1, n) = i.x
           /\ o.y = i.y \o Const(Len(r), 0)
           /\ o.w = i.w \o Ones(Len(r))
           /\ Gram(r, Len(i.s)) = i.s

\* C10: the history is append only and aligned with the loop: params and
\* deviance have equal length, and the iteration count stored in the returned
\* history is the number of loop iterations executed, so it never exceeds
\* maxiter.
C10_IterationCount ==
    \A f \in Fits :
        pc[f] = "done" =>
            LET h == result[f][1].fit_history
            IN /\ Len(h.params) = Len(h.deviance)
               /\ h.iteration = it_next[f]
               /\ h.iteration = Len(h.deviance) - 2
               /\ h.iteration <= args[f].maxiter

====
